---- MODULE Spec2Model ----
(***************************************************************************)
(* Model of helpers/response_handler.js (wazuh-api): the response sender   *)
(* `send`, its wrapper `bad_request` and the file streamer `send_file`,    *)
(* acting on one Express request/response pair at a time, the logger sink, *)
(* the process-wide `pretty` flag and the implicit global `json_res`.      *)
(*                                                                         *)
(* JavaScript values are tagged records: Undefined, Null, Num(n), Str(s)   *)
(* (a string is the sequence of the pieces it was concatenated from) and   *)
(* Obj(error, data, message) for a response envelope; an absent property   *)
(* reads as Undefined, exactly as in JavaScript.                           *)
(***************************************************************************)
EXTENDS Integers, Sequences, FiniteSets, TLC

VARIABLES
    pretty,     \* exports.pretty, the process-wide flag
    json_res,   \* the implicit global assigned by bad_request and send_file
    res,        \* the response object of the request being handled
    wire,       \* how often a head and a body were put on its connection
    stream,     \* the read stream piped into the response, if any
    uncaught,   \* an exception reached the event loop
    effects,    \* the side effects of the latest handler call, in program order
    last        \* the latest handler call and its arguments

vars == <<pretty, json_res, res, wire, stream, uncaught, effects, last>>

\* ---------------------------------------------------------------- bounds
MaxFileSize == 2

\* ------------------------------------------------------ program constants
DefaultStatus == 200
MinStatus == 100
MaxStatus == 600
LowInternal == 1
HighInternal == 9
InternalErrorCode == 3
InternalStatus == 500
NoDebugStatus == 200
Indent == 3
BadRequestStatus == 400
FileOkStatus == 200
NotFoundCode == 700
NotFoundStatus == 404

\* ------------------------------------------------------ JavaScript values
Undefined == [t |-> "undefined"]
Null == [t |-> "null"]
Num(n) == [t |-> "number", v |-> n]
Str(s) == [t |-> "string", v |-> s]
Obj(e, d, m) == [t |-> "object", error |-> e, data |-> d, message |-> m]

\* x == null / x != null of JavaScript: true of null and of undefined
IsNullish(x) == x.t \in {"undefined", "null"}

\* truthiness of a string or undefined argument: if (extra_msg)
Truthy(x) == x.t = "string" /\ Len(x.v) > 0

\* string concatenation a + b
Concat(a, b) == Str(a.v \o b.v)

\* errors.description(n): the external code -> text table
description(n) == Str(<<"description", ToString(n)>>)

\* ---------------------------------------- JSON.stringify and its inverse
Members(v) ==
    <<[k |-> "error", v |-> v.error],
      [k |-> "data", v |-> v.data],
      [k |-> "message", v |-> v.message]>>

IsDefinedMember(m) == m.v.t # "undefined"

\* JSON.stringify(v, null, indent): properties whose value is undefined are
\* dropped, null is kept; indent 0 is the compact form.
Stringify(v, indent) ==
    [indent |-> indent, members |-> SelectSeq(Members(v), IsDefinedMember)]

MemberOf(text, key) ==
    LET hits == SelectSeq(text.members, LAMBDA m : m.k = key)
    IN IF Len(hits) = 0 THEN Undefined ELSE hits[1].v

\* JSON.parse as the client does it: indentation is not content
Parse(text) ==
    Obj(MemberOf(text, "error"), MemberOf(text, "data"), MemberOf(text, "message"))

\* ------------------------------------------------------------ environment
current_version == "v1.2"

Req == [remoteAddress |-> "10.0.0.7", method |-> "GET",
        baseUrl |-> <<"/v1.2", "/rules">>, url |-> "/files"]

\* req.baseUrl.replace("/" + current_version, ""): first occurrence removed
RECURSIVE StripVersion(_)
StripVersion(u) ==
    IF u = <<>> THEN <<>>
    ELSE IF Head(u) = "/" \o current_version THEN Tail(u)
    ELSE <<Head(u)>> \o StripVersion(Tail(u))

\* config.ossec_path + "/rules/" + rule_name
FilePath(rule_name) == Str(<<"ossec_path", "/rules/", rule_name>>)

\* the rule names a request may carry and what the file system holds there
RuleNames == {"rules.xml", "missing.xml", "noperm/rules.xml", "subdir"}

\* fileSystem.statSync(filepath): a size, or the code of the error thrown
StatSync(rule_name) ==
    CASE rule_name = "rules.xml" -> {[err |-> "none", size |-> n] : n \in 0..MaxFileSize}
      [] rule_name = "missing.xml" -> {[err |-> "ENOENT", size |-> 0]}
      [] rule_name = "noperm/rules.xml" -> {[err |-> "EACCES", size |-> 0]}
      [] rule_name = "subdir" -> {[err |-> "none", size |-> MaxFileSize]}

\* whether the read stream opened by createReadStream can deliver the bytes
\* (a directory stats fine and then fails the read with EISDIR)
Readable(rule_name) == rule_name = "rules.xml"

FreshRes == [headersSent |-> FALSE, ended |-> FALSE]

FreshWire == [heads |-> 0, bodies |-> 0]

\* ------------------------------------------------------------------- send
InternalError == Obj(Num(InternalErrorCode), Undefined, description(InternalErrorCode))

\* line 20-21
DefaultedStatus(status) ==
    IF status.t = "undefined" THEN Num(DefaultStatus) ELSE status

\* line 24 without the upper bound of the status
Validate_NoUpperBound(json_r, status) ==
    /\ ~IsNullish(json_r)
    /\ ~IsNullish(json_r.error)
    /\ (~IsNullish(json_r.data) \/ ~IsNullish(json_r.message))
    /\ status.v >= MinStatus

\* line 24 with both bounds of the status exclusive
Validate_Exclusive(json_r, status) ==
    /\ ~IsNullish(json_r)
    /\ ~IsNullish(json_r.error)
    /\ (~IsNullish(json_r.data) \/ ~IsNullish(json_r.message))
    /\ status.v > MinStatus
    /\ status.v < MaxStatus

\* line 24
Validate(json_r, status) ==
    /\ ~IsNullish(json_r)
    /\ ~IsNullish(json_r.error)
    /\ (~IsNullish(json_r.data) \/ ~IsNullish(json_r.message))
    /\ status.v >= MinStatus
    /\ status.v <= MaxStatus

\* line 27-28 with the upper end of the range exclusive
CalculateStatus_OffByOne(json_r, status) ==
    IF json_r.error.v >= LowInternal /\ json_r.error.v < HighInternal
    THEN Num(InternalStatus)
    ELSE status

\* line 27-28
CalculateStatus(json_r, status) ==
    IF json_r.error.v >= LowInternal /\ json_r.error.v <= HighInternal
    THEN Num(InternalStatus)
    ELSE status

\* line 37-38
LogLine(req, status, error) ==
    [fx |-> "log", addr |-> req.remoteAddress, method |-> req.method,
     path |-> StripVersion(req.baseUrl) \o <<req.url>>,
     status |-> status, error |-> error]

\* line 41 logging client and server errors only
NeedsDebug_ErrorsOnly(status) == status.v >= BadRequestStatus

\* line 41
NeedsDebug(status) == status.v # NoDebugStatus

\* line 45 without the headersSent guard
CanWrite_Always(r) == TRUE

\* line 45
CanWrite(r) == ~r.headersSent

\* line 46-49: what goes on the wire
WriteFx(json_r, status, prettyFlag) ==
    IF prettyFlag
    THEN [fx |-> "res.send", status |-> status, ctype |-> "text/html",
          text |-> Stringify(json_r, Indent), newline |-> TRUE]
    ELSE [fx |-> "res.json", status |-> status, ctype |-> "application/json",
          text |-> Stringify(json_r, 0), newline |-> FALSE]

\* exports.send: the side effects in program order and the response after
send(req, r, json_r, status, prettyFlag) ==
    LET status0 == DefaultedStatus(status)
        ok == Validate(json_r, status0)
        json1 == IF ok THEN json_r ELSE InternalError
        status1 == IF ok THEN CalculateStatus(json_r, status0) ELSE Num(InternalStatus)
        logFx == <<LogLine(req, status1, json1.error)>>
        dbgFx == IF NeedsDebug(status1)
                 THEN <<[fx |-> "debug", text |-> Stringify(json1, 0), status |-> status1]>>
                 ELSE <<>>
        w == WriteFx(json1, status1, prettyFlag)
    IN IF CanWrite(r)
       THEN [fx |-> logFx \o dbgFx \o <<w>>, wrote |-> 1,
             res |-> [headersSent |-> TRUE, ended |-> TRUE]]
       ELSE [fx |-> logFx \o dbgFx, wrote |-> 0, res |-> r]

\* ------------------------------------------------------------ bad_request
\* line 54-57 appending the extra text without the separator
BadRequestMsg_NoSeparator(internal_error, extra_msg) ==
    IF Truthy(extra_msg)
    THEN Concat(description(internal_error), extra_msg)
    ELSE description(internal_error)

\* line 54-57
BadRequestMsg(internal_error, extra_msg) ==
    IF Truthy(extra_msg)
    THEN Concat(Concat(description(internal_error), Str(<<". ">>)), extra_msg)
    ELSE description(internal_error)

\* line 59
BadRequestJson(internal_error, extra_msg) ==
    Obj(Num(internal_error), Undefined, BadRequestMsg(internal_error, extra_msg))

\* -------------------------------------------------------------- send_file
\* line 84
NotFoundJson(filepath) ==
    Obj(Num(NotFoundCode), Undefined,
        Concat(Concat(description(NotFoundCode), Str(<<": ">>)), filepath))

\* line 69-72 without the Content-Length header
FileHead_NoLength(st) == [status |-> Num(FileOkStatus), ctype |-> "text/xml", clen |-> Undefined]

\* line 69-72
FileHead(st) == [status |-> Num(FileOkStatus), ctype |-> "text/xml", clen |-> Num(st.size)]

\* line 80
FileLogLine(req) == LogLine(req, Num(FileOkStatus), Num(0))

\* ------------------------------------------------------------ input sets
ErrorValues == {Undefined, Null, Num(0), Num(1), Num(9), Num(10)}
DataValues == {Undefined, Str(<<"d">>)}
MessageValues == {Null, Str(<<"m">>)}
Payloads == {Null} \cup {Obj(e, d, m) : e \in ErrorValues, d \in DataValues, m \in MessageValues}
Statuses == {Undefined} \cup {Num(n) : n \in {MinStatus - 1, MinStatus, MaxStatus, MaxStatus + 1}}
Codes == {0, HighInternal, HighInternal + 1}
Extras == {Undefined, Str(<<>>), Str(<<"x">>)}

\* ------------------------------------------------------------------- Init
Init ==
    /\ pretty = FALSE
    /\ json_res = Undefined
    /\ res = FreshRes
    /\ wire = FreshWire
    /\ stream = [state |-> "none", rule |-> "none"]
    /\ uncaught = FALSE
    /\ effects = <<>>
    /\ last = [op |-> "none"]

\* ---------------------------------------------------------------- actions
\* a route handler calls res_h.send(req, res, json_r, status)
Send ==
    /\ ~uncaught
    /\ \E json_r \in Payloads, status \in Statuses :
         LET out == send(Req, res, json_r, status, pretty)
         IN /\ res' = out.res
         /\ wire' = [heads |-> wire.heads + out.wrote, bodies |-> wire.bodies + out.wrote]
            /\ effects' = out.fx
            /\ last' = [op |-> "send", json_r |-> json_r, status |-> status,
                        sentBefore |-> res.headersSent,
                        sendCalled |-> TRUE,
                        sendArgs |-> [json_r |-> json_r, status |-> status]]
    /\ UNCHANGED <<pretty, json_res, stream, uncaught>>

\* a route handler calls res_h.bad_request(req, res, internal_error, extra_msg)
BadRequest ==
    /\ ~uncaught
    /\ \E code \in Codes, extra \in Extras :
         LET j == BadRequestJson(code, extra)
             out == send(Req, res, j, Num(BadRequestStatus), pretty)
         IN /\ json_res' = j
            /\ res' = out.res
            /\ wire' = [heads |-> wire.heads + out.wrote, bodies |-> wire.bodies + out.wrote]
            /\ effects' = out.fx
            /\ last' = [op |-> "bad_request", code |-> code, extra |-> extra,
                        sentBefore |-> res.headersSent,
                        sendCalled |-> TRUE,
                        sendArgs |-> [json_r |-> j, status |-> Num(BadRequestStatus)]]
    /\ UNCHANGED <<pretty, stream, uncaught>>

\* a route handler calls res_h.send_file(req, res, rule_name)
SendFile ==
    /\ ~uncaught
    /\ \E rule_name \in RuleNames :
       \E st \in StatSync(rule_name) :
         LET filepath == FilePath(rule_name)
             mk(called, args) ==
                 [op |-> "send_file", rule |-> rule_name, stat |-> st,
                  sentBefore |-> res.headersSent,
                  sendCalled |-> called, sendArgs |-> args]
         IN IF st.err = "ENOENT"
            THEN \* statSync threw, e.code === 'ENOENT'
                 LET j == NotFoundJson(filepath)
                     out == send(Req, res, j, Num(NotFoundStatus), pretty)
                 IN /\ json_res' = j
                    /\ res' = out.res
                    /\ wire' = [heads |-> wire.heads + out.wrote, bodies |-> wire.bodies + out.wrote]
                    /\ effects' = out.fx
                    /\ last' = mk(TRUE, [json_r |-> j, status |-> Num(NotFoundStatus)])
                    /\ UNCHANGED stream
            ELSE IF st.err # "none" \/ res.headersSent
            THEN \* statSync threw another error, or writeHead threw because
                 \* the headers of this response are already sent
                 LET j == Obj(Num(InternalErrorCode), Undefined, description(InternalErrorCode))
                     out == send(Req, res, j, Num(InternalStatus), pretty)
                 IN /\ json_res' = j
                    /\ res' = out.res
                    /\ wire' = [heads |-> wire.heads + out.wrote, bodies |-> wire.bodies + out.wrote]
                    /\ effects' = out.fx
                    /\ last' = mk(TRUE, [json_r |-> j, status |-> Num(InternalStatus)])
                    /\ UNCHANGED stream
            ELSE \* writeHead, createReadStream, pipe, log
                 /\ res' = [res EXCEPT !.headersSent = TRUE]
                 /\ wire' = [heads |-> wire.heads + 1, bodies |-> wire.bodies + 1]
                 /\ stream' = [state |-> "piping", rule |-> rule_name]
                 /\ effects' = <<[fx |-> "writeHead", head |-> FileHead(st)],
                                 [fx |-> "pipe", path |-> filepath],
                                 FileLogLine(Req)>>
                 /\ last' = mk(FALSE, Undefined)
                 /\ UNCHANGED json_res
    /\ UNCHANGED <<pretty, uncaught>>

\* the read stream delivers the last byte and ends the response
StreamEnd ==
    /\ ~uncaught
    /\ stream.state = "piping"
    /\ Readable(stream.rule)
    /\ stream' = [stream EXCEPT !.state = "ended"]
    /\ res' = [res EXCEPT !.ended = TRUE]
    /\ UNCHANGED <<pretty, json_res, wire, uncaught, effects, last>>

\* the read stream emits 'error'; no listener is registered on it, so the
\* event is thrown from the event loop as an uncaught exception
StreamError ==
    /\ ~uncaught
    /\ stream.state = "piping"
    /\ ~Readable(stream.rule)
    /\ stream' = [stream EXCEPT !.state = "failed"]
    /\ uncaught' = TRUE
    /\ UNCHANGED <<pretty, json_res, res, wire, effects, last>>

\* the application sets res_h.pretty for the coming responses
SetPretty ==
    /\ ~uncaught
    /\ \E b \in BOOLEAN : b # pretty /\ pretty' = b
    /\ UNCHANGED <<json_res, res, wire, stream, uncaught, effects, last>>

\* the framework hands the handlers the next request with its own response
NewRequest ==
    /\ ~uncaught
    /\ res.headersSent
    /\ stream.state # "piping"
    /\ res' = FreshRes
    /\ wire' = FreshWire
    /\ stream' = [state |-> "none", rule |-> "none"]
    /\ effects' = <<>>
    /\ last' = [op |-> "none"]
    /\ UNCHANGED <<pretty, json_res, uncaught>>

Next ==
    \/ Send
    \/ BadRequest
    \/ SendFile
    \/ StreamEnd
    \/ StreamError
    \/ SetPretty
    \/ NewRequest

Spec == Init /\ [][Next]_vars

\* ------------------------------------------------- reading the effects
InfoLines == SelectSeq(effects, LAMBDA e : e.fx = "log")
DebugLines == SelectSeq(effects, LAMBDA e : e.fx = "debug")
Writes == SelectSeq(effects, LAMBDA e : e.fx \in {"res.send", "res.json"})
FileWrites == SelectSeq(effects, LAMBDA e : e.fx \in {"writeHead", "pipe"})

\* the status a caller passed, 200 when omitted
GivenStatus(status) == IF status.t = "undefined" THEN 200 ELSE status.v

InRange(n, lo, hi) == n >= lo /\ n <= hi

\* the payload or status is one that send must replace
Replaced(json_r, status) ==
    \/ json_r.t = "null"
    \/ json_r.error.t \in {"null", "undefined"}
    \/ (json_r.data.t \in {"null", "undefined"} /\ json_r.message.t \in {"null", "undefined"})
    \/ GivenStatus(status) < 100
    \/ GivenStatus(status) > 600

FixedEnvelope == Obj(Num(3), Undefined, description(3))

\* the status and envelope send ends up with for these arguments
FinalStatus(json_r, status) ==
    IF Replaced(json_r, status) THEN 500
    ELSE IF InRange(json_r.error.v, 1, 9) THEN 500
    ELSE GivenStatus(status)

FinalEnvelope(json_r, status) ==
    IF Replaced(json_r, status) THEN FixedEnvelope ELSE json_r

\* every status and envelope the call logged or wrote is this one
AllCarry(st, env) ==
    /\ Len(InfoLines) = 1
    /\ InfoLines[1].status = Num(st)
    /\ InfoLines[1].error = env.error
    /\ \A i \in 1..Len(DebugLines) :
         DebugLines[i].status = Num(st) /\ Parse(DebugLines[i].text) = env
    /\ \A i \in 1..Len(Writes) :
         Writes[i].status = Num(st) /\ Parse(Writes[i].text) = env

\* C1: a send whose payload is null, lacks error, lacks both data and
\* message, or whose status (200 when omitted) is outside 100..600 logs and
\* writes the fixed internal-error envelope {error: 3, message:
\* description(3)} with status 500, whatever else the caller supplied.
C1_InvalidReplaced ==
    (last.op = "send" /\ Replaced(last.json_r, last.status)) =>
        /\ AllCarry(500, FixedEnvelope)
        /\ Len(DebugLines) = 1
        /\ (~last.sentBefore => Len(Writes) = 1)

C1_Witness ==
    /\ last.op = "send"
    /\ last.json_r.t = "object"
    /\ last.json_r.error = Num(9)
    /\ last.json_r.data = Str(<<"d">>)
    /\ last.status = Num(601)
    /\ Len(Writes) = 1
    /\ Writes[1].status = Num(500)

\* C2: a send whose payload carries an error code in 1..9 logs and writes
\* status 500 for every status the caller passes, with or without
\* data/message.
C2_InternalCodesGive500 ==
    (/\ last.op = "send"
     /\ last.json_r.t = "object"
     /\ last.json_r.error.t = "number"
     /\ InRange(last.json_r.error.v, 1, 9)) =>
        /\ Len(InfoLines) = 1
        /\ InfoLines[1].status = Num(500)
        /\ \A i \in 1..Len(DebugLines) : DebugLines[i].status = Num(500)
        /\ \A i \in 1..Len(Writes) : Writes[i].status = Num(500)
        /\ (~last.sentBefore => Len(Writes) = 1)

C2_Witness ==
    /\ last.op = "send"
    /\ last.json_r.t = "object"
    /\ last.json_r.error = Num(9)
    /\ last.json_r.message = Str(<<"m">>)
    /\ last.status = Num(100)
    /\ Len(Writes) = 1
    /\ Writes[1].status = Num(500)
    /\ Parse(Writes[1].text) = last.json_r

\* the message bad_request is to build
ExpectedMsg(code, extra) ==
    IF extra.t = "string" /\ extra.v # <<>>
    THEN Str(<<"description", ToString(code), ". ">> \o extra.v)
    ELSE Str(<<"description", ToString(code)>>)

\* C3 as stated: bad_request sends {error: code, message: description(code)
\* [+ ". " + extra]} with status 400 for every internal error code.
C3_Original ==
    last.op = "bad_request" =>
        /\ AllCarry(400, Obj(Num(last.code), Undefined, ExpectedMsg(last.code, last.extra)))
        /\ (~last.sentBefore => Len(Writes) = 1)

\* C3 as amended: bad_request sends {error: code, message: description(code)
\* [+ ". " + extra]}; the status is 400 for a code outside 1..9 and 500 for
\* a code in 1..9.
C3_BadRequest ==
    last.op = "bad_request" =>
        /\ AllCarry(IF InRange(last.code, 1, 9) THEN 500 ELSE 400,
                    Obj(Num(last.code), Undefined, ExpectedMsg(last.code, last.extra)))
        /\ Len(DebugLines) = 1
        /\ (~last.sentBefore => Len(Writes) = 1)

C3_Witness ==
    /\ last.op = "bad_request"
    /\ last.code = 10
    /\ last.extra = Str(<<"x">>)
    /\ Len(Writes) = 1
    /\ Writes[1].status = Num(400)
    /\ Parse(Writes[1].text).message = Str(<<"description", "10", ". ", "x">>)

\* the client of a response that was fresh when send_file was called
\* received this error code with this status
ClientGot(code, st) ==
    /\ Len(Writes) = 1
    /\ Writes[1].status = Num(st)
    /\ Parse(Writes[1].text).error = Num(code)
    /\ FileWrites = <<>>

\* C4: send_file on a missing file makes the client receive error 700 with
\* status 404 and the attempted path in the message; send_file failing for
\* any other reason, a failure of the stat or of reading the file, makes
\* the client receive error 3 with status 500.
C4_FileErrors ==
    (last.op = "send_file" /\ ~last.sentBefore) =>
        /\ last.stat.err = "ENOENT" =>
             /\ ClientGot(700, 404)
             /\ Parse(Writes[1].text).message =
                  Str(<<"description", "700", ": ", "ossec_path", "/rules/", last.rule>>)
        /\ (last.stat.err \notin {"none", "ENOENT"} \/ stream.state = "failed") =>
             ClientGot(3, 500)

\* C5: no exception escapes send, bad_request or send_file; every failure
\* met while handling a request is caught and turned into an error envelope.
C5_NoExceptionEscapes ==
    /\ ~uncaught
    /\ stream.state = "failed" => \E i \in 1..Len(Writes) : Parse(Writes[i].text).error = Num(3)

\* C6: over any sequence of send, bad_request and send_file calls on one
\* response, head and body go on the connection at most once; a call made
\* after the headers were sent writes nothing, also when send is reached
\* from send_file's catch branch.
C6_WrittenAtMostOnce ==
    /\ wire.heads <= 1
    /\ wire.bodies <= 1
    /\ (last.op # "none" /\ last.sentBefore) => (Writes = <<>> /\ FileWrites = <<>>)

C6_Witness ==
    /\ last.op = "send_file"
    /\ last.sentBefore
    /\ last.sendCalled
    /\ Len(InfoLines) = 1
    /\ wire.heads = 1
    /\ wire.bodies = 1

\* C7: a call of send emits no debug line when its final status is 200 and
\* exactly one, carrying the serialized final envelope and the final
\* status, otherwise, whether or not the response is written.
C7_DebugLine ==
    (last.op # "none" /\ last.sendCalled) =>
        LET st == FinalStatus(last.sendArgs.json_r, last.sendArgs.status)
            env == FinalEnvelope(last.sendArgs.json_r, last.sendArgs.status)
        IN IF st = 200
           THEN DebugLines = <<>>
           ELSE /\ Len(DebugLines) = 1
                /\ DebugLines[1].status = Num(st)
                /\ DebugLines[1].text.indent = 0
                /\ Parse(DebugLines[1].text) = env

C7_Witness ==
    /\ last.op = "send"
    /\ last.sentBefore
    /\ last.status = Num(100)
    /\ last.json_r.t = "object"
    /\ last.json_r.error = Num(0)
    /\ Len(DebugLines) = 1
    /\ DebugLines[1].status = Num(100)
    /\ Writes = <<>>

\* what send_file does for a file the stat found
StreamedEffects ==
    /\ Len(effects) = 3
    /\ effects[1].fx = "writeHead"
    /\ effects[1].head = [status |-> Num(200), ctype |-> "text/xml", clen |-> Num(last.stat.size)]
    /\ effects[2].fx = "pipe"
    /\ effects[2].path = Str(<<"ossec_path", "/rules/", last.rule>>)
    /\ effects[3].fx = "log"
    /\ effects[3].status = Num(200)
    /\ effects[3].error = Num(0)
    /\ ~last.sendCalled
    /\ wire.heads = 1

\* C8 as stated: send_file on an existing file writes the 200 head with
\* Content-Type text/xml and Content-Length = stat size, starts streaming,
\* then logs one info line with status 200 and error 0, and never calls send.
C8_Original ==
    (last.op = "send_file" /\ last.stat.err = "none") => StreamedEffects

\* C8 as amended: the same, for a response whose headers were not yet sent
\* when send_file was called.
C8_FileStreamed ==
    (last.op = "send_file" /\ last.stat.err = "none" /\ ~last.sentBefore) => StreamedEffects

C8_Witness ==
    /\ last.op = "send_file"
    /\ last.rule = "rules.xml"
    /\ last.stat.size > 0
    /\ ~last.sentBefore
    /\ stream.state = "ended"
    /\ res.ended
    /\ Len(effects) = 3

\* C9: apart from the pretty flag no call writes state that outlives it:
\* no module-level or global variable is assigned during a call.
C9_NoGlobalAssigned == json_res = Undefined

\* C10: a send of a valid payload (error present and outside 1..9, data or
\* message present, status in 100..600 inclusive) on a response not yet
\* sent writes the caller's status and the caller's envelope unchanged,
\* with the pretty flag set or not.
C10_PassThrough ==
    (/\ last.op = "send"
     /\ ~last.sentBefore
     /\ ~Replaced(last.json_r, last.status)
     /\ ~InRange(last.json_r.error.v, 1, 9)) =>
        /\ Len(Writes) = 1
        /\ Writes[1].status = Num(GivenStatus(last.status))
        /\ Parse(Writes[1].text) = last.json_r
        /\ Writes[1].fx = "res.send" => (Writes[1].text.indent = 3 /\ Writes[1].newline)
        /\ Writes[1].fx = "res.json" => (Writes[1].text.indent = 0 /\ ~Writes[1].newline)
        /\ wire.heads = 1
        /\ wire.bodies = 1

C10_Witness ==
    /\ last.op = "send"
    /\ ~last.sentBefore
    /\ last.status = Num(600)
    /\ last.json_r.t = "object"
    /\ last.json_r.error = Num(10)
    /\ last.json_r.message = Null
    /\ last.json_r.data = Str(<<"d">>)
    /\ Len(Writes) = 1
    /\ Writes[1].fx = "res.send"
    /\ Writes[1].status = Num(600)

====
